---- MODULE Spec2Model ----
(***************************************************************************)
(* Model of the skilled-agent runtime: the sandboxed tools (runScript,     *)
(* readFile), the prepareStep context-window hook, streamAgentResponse and *)
(* the interactive chat loop.  Strings are sequences of one-character      *)
(* strings, so that startsWith / includes / split / replace / trim are     *)
(* computed character by character as the JavaScript does.                 *)
(***************************************************************************)
EXTENDS Integers, Sequences, FiniteSets, TLC

VARIABLES
    \* ---- chat loop and streamAgentResponse ----
    pc,                  \* "awaiting" (for await ... of console) | "turn"
    conversationHistory, \* Array<UserModelMessage | AssistantModelMessage>
    assistantResponse,   \* let assistantResponse (string being accumulated)
    prompts,             \* number of times userLabel was written
    turns,               \* completed calls of streamAgentResponse
    textLoop,            \* "idle" | "reading" | "done": the for-await over textStream
    toolMonitor,         \* "idle" | "reading" | "done": the toolMonitor task
    textStream,          \* text parts delivered and not yet read
    fullStream,          \* stream chunks delivered and not yet read
    \* ---- the agent (step loop behind agent.stream) ----
    agentPc,             \* "off" | "between" | "infer" | "tool" | "closed"
    step,                \* inference steps started in this turn
    initialMessages,     \* the messages handed to agent.stream
    responseMessages,    \* assistant / tool messages produced by earlier steps
    candidate,           \* the list prepareStep last received
    sent,                \* the list last sent to the model
    arrived,             \* all text parts of the turn, in arrival order
    frags,               \* text parts emitted in this turn
    budgetHit,           \* the turn was stopped by stepCountIs(10)
    line,                \* the loop variable: the last line read from the console
    lines,               \* lines read from the console so far
    \* ---- prepareStep as a function ----
    wIn, wOut, wTwice, wPc,
    \* ---- runScript ----
    scriptPath, rsPc, rsResult, spawned, child, clock, exitCode, fsScript, childPlan,
    timer,               \* "none" | "armed" | "fired": the spawn timeout
    pipeChild,           \* the child holds the write ends of stdout / stderr
    pipeHeir,            \* a process the child started holds them too
    \* ---- readFile ----
    filePath, rfPc, rfResult, fsOps, fsFile

chatVars  == <<pc, conversationHistory, assistantResponse, prompts, turns,
               textLoop, toolMonitor, textStream, fullStream>>
agentVars == <<agentPc, step, initialMessages, responseMessages, candidate, sent,
               arrived, frags, budgetHit, line, lines>>
winVars   == <<wIn, wOut, wTwice, wPc>>
rsVars    == <<scriptPath, rsPc, rsResult, spawned, child, clock, exitCode,
               fsScript, childPlan, timer, pipeChild, pipeHeir>>
rfVars    == <<filePath, rfPc, rfResult, fsOps, fsFile>>
vars      == <<chatVars, agentVars, winVars, rsVars, rfVars>>

(***************************************************************************)
(* String primitives (methods of String.prototype).                            *)
(***************************************************************************)
RECURSIVE Concat(_)
Concat(ss) == IF ss = <<>> THEN <<>> ELSE Head(ss) \o Concat(Tail(ss))

\* s.replace(/\\/g, '/')
ReplaceBackslashes(s) == [i \in 1..Len(s) |-> IF s[i] = "\\" THEN "/" ELSE s[i]]

\* s.startsWith(p)
StartsWith(s, p) == Len(s) >= Len(p) /\ SubSeq(s, 1, Len(p)) = p

\* s.endsWith(p)
EndsWith(s, p) == Len(s) >= Len(p) /\ SubSeq(s, Len(s) - Len(p) + 1, Len(s)) = p

\* s.includes(p)
Includes(s, p) == \E i \in 1..(Len(s) - Len(p) + 1) : SubSeq(s, i, i + Len(p) - 1) = p

\* s.split('/')
RECURSIVE SplitFrom(_, _, _)
SplitFrom(s, i, cur) ==
    IF i > Len(s) THEN <<cur>>
    ELSE IF s[i] = "/" THEN <<cur>> \o SplitFrom(s, i + 1, <<>>)
    ELSE SplitFrom(s, i + 1, Append(cur, s[i]))
Split(s) == SplitFrom(s, 1, <<>>)

UpperCase == <<"A","B","C","D","E","F","G","H","I","J","K","L","M",
               "N","O","P","Q","R","S","T","U","V","W","X","Y","Z">>
LowerCase == <<"a","b","c","d","e","f","g","h","i","j","k","l","m",
               "n","o","p","q","r","s","t","u","v","w","x","y","z">>
LowerChar(c) == IF \E k \in 1..26 : UpperCase[k] = c
                THEN LowerCase[CHOOSE k \in 1..26 : UpperCase[k] = c]
                ELSE c
\* the effect of the regular expression's i flag
ToLower(s) == [i \in 1..Len(s) |-> LowerChar(s[i])]

\* ECMAScript WhiteSpace and LineTerminator, the characters trim() strips.  A
\* character that has no escape in a string here is written by its code point.
WhiteSpace ==
    { " ", "\t", "\n", "\r", "\f", "U+000B", "U+00A0", "U+FEFF", "U+2028", "U+2029",
      "U+1680", "U+2000", "U+2001", "U+2002", "U+2003", "U+2004", "U+2005",
      "U+2006", "U+2007", "U+2008", "U+2009", "U+200A", "U+202F", "U+205F",
      "U+3000" }
\* s.trim()
RECURSIVE TrimStart(_)
TrimStart(s) == IF s # <<>> /\ Head(s) \in WhiteSpace THEN TrimStart(Tail(s)) ELSE s
RECURSIVE TrimEnd(_)
TrimEnd(s) == IF s # <<>> /\ s[Len(s)] \in WhiteSpace
              THEN TrimEnd(SubSeq(s, 1, Len(s) - 1)) ELSE s
Trim(s) == TrimEnd(TrimStart(s))

(***************************************************************************)
(* The tools' input schemas.                                               *)
(***************************************************************************)
\* `${import.meta.dir}/skills` with the program installed in /p
SKILLS_PATH == <<"/", "p", "/", "s", "k", "i", "l", "l", "s">>

MinSplitLength == 3

\* runScriptTool.inputSchema: the refine() predicate on scriptPath
ScriptPathOk(path) ==
    LET normalized == ReplaceBackslashes(path)
    IN  /\ StartsWith(normalized, SKILLS_PATH)
        /\ ~Includes(normalized, <<".", ".", "/">>)
        /\ Len(Split(normalized)) >= MinSplitLength

ImageExtensions ==
    { <<"p","n","g">>, <<"j","p","g">>, <<"j","p","e","g">>, <<"g","i","f">>,
      <<"b","m","p">>, <<"w","e","b","p">>, <<"a","v","i","f">>, <<"p","d","f">> }

\* /\.(png|jpg|jpeg|gif|bmp|webp|avif|pdf)$/i
MatchesBinaryExtension(s) ==
    \E e \in ImageExtensions : EndsWith(ToLower(s), <<".">> \o e)

\* readFileTool.inputSchema: the refine() predicate on filePath
FilePathOk(path) ==
    LET normalized == ReplaceBackslashes(path)
    IN  /\ ~Includes(normalized, <<"/", ".", "e", "n", "v">>)
        /\ ~Includes(normalized, <<"/", ".", "g", "i", "t", "/">>)
        /\ ~Includes(normalized, <<"n","o","d","e","_","m","o","d","u","l","e","s","/">>)
        /\ ~MatchesBinaryExtension(normalized)

(***************************************************************************)
(* prepareStep: the context-window hook.                                   *)
(***************************************************************************)
Threshold == 8
KeepLast  == 8

\* messages.slice(-n)
SliceLast(messages, n) ==
    SubSeq(messages, IF Len(messages) > n THEN Len(messages) - n + 1 ELSE 1, Len(messages))

Undefined == [role |-> "undefined", content |-> <<>>, call |-> 0]

\* [...].filter(msg => msg !== undefined)
FilterDefined(ms) == SelectSeq(ms, LAMBDA m : m # Undefined)

\* messages[0]
First(messages) == IF messages = <<>> THEN Undefined ELSE messages[1]

prepareStepNoAnchor(messages) ==
    IF Len(messages) > Threshold
    THEN FilterDefined(SliceLast(messages, KeepLast))
    ELSE messages
prepareStepShort(messages) ==
    IF Len(messages) > Threshold
    THEN FilterDefined(<<First(messages)>> \o SliceLast(messages, KeepLast - 1))
    ELSE messages
prepareStep(messages) ==
    IF Len(messages) > Threshold
    THEN FilterDefined(<<First(messages)>> \o SliceLast(messages, KeepLast))
    ELSE messages

(***************************************************************************)
(* Messages.  A user or assistant message of the stored history carries    *)
(* text; within a turn the agent adds, per step that called tools, one     *)
(* assistant message holding the tool call and one tool message holding    *)
(* its result (call is the step that issued it, 0 for a text message).     *)
(* The text inside a step's own messages is not tracked: the turn's text   *)
(* is kept once, in arrived.                                               *)
(***************************************************************************)
UserMessage(text)      == [role |-> "user", content |-> text, call |-> 0]
AssistantMessage(text) == [role |-> "assistant", content |-> text, call |-> 0]
ToolCallMessage(id)    == [role |-> "assistant", content |-> <<>>, call |-> id]
ToolResultMessage(id)  == [role |-> "tool", content |-> <<>>, call |-> id]

(***************************************************************************)
(* Idle values of the parts a specification does not exercise.             *)
(***************************************************************************)
IdleChat ==
    /\ pc = "awaiting" /\ conversationHistory = <<>> /\ assistantResponse = <<>>
    /\ prompts = 0 /\ turns = 0 /\ textLoop = "idle" /\ toolMonitor = "idle"
    /\ textStream = <<>> /\ fullStream = <<>>
IdleAgent ==
    /\ agentPc = "off" /\ step = 0 /\ initialMessages = <<>> /\ responseMessages = <<>>
    /\ candidate = <<>> /\ sent = <<>> /\ arrived = <<>> /\ frags = 0
    /\ budgetHit = FALSE /\ line = <<>> /\ lines = 0
IdleWin == wIn = <<>> /\ wOut = <<>> /\ wTwice = <<>> /\ wPc = "off"
NoExit  == [killed |-> FALSE, code |-> 0]
NoFile  == [exists |-> FALSE, executable |-> FALSE, size |-> 0]
NoPlan  == [stdout |-> <<>>, stderr |-> <<>>]
IdleRs ==
    /\ scriptPath = <<>> /\ rsPc = "off" /\ rsResult = <<>> /\ spawned = 0
    /\ child = "none" /\ clock = 0 /\ exitCode = NoExit /\ fsScript = NoFile
    /\ childPlan = NoPlan /\ timer = "none" /\ pipeChild = FALSE /\ pipeHeir = FALSE
IdleRf ==
    /\ filePath = <<>> /\ rfPc = "off" /\ rfResult = <<>> /\ fsOps = <<>>
    /\ fsFile = NoFile

(***************************************************************************)
(* SpecWindow: prepareStep applied to arbitrary message lists.             *)
(***************************************************************************)
MaxWin == 10

WinMessages == { UserMessage(<<"q">>), AssistantMessage(<<"r">>) }

RECURSIVE SeqsUpTo(_, _)
SeqsUpTo(S, n) ==
    IF n = 0 THEN {<<>>}
    ELSE LET shorter == SeqsUpTo(S, n - 1)
         IN  shorter \cup {Append(q, x) : q \in {t \in shorter : Len(t) = n - 1}, x \in S}

InitWindow ==
    /\ wIn \in SeqsUpTo(WinMessages, MaxWin)
    /\ wOut = <<>> /\ wTwice = <<>> /\ wPc = "ready"
    /\ IdleChat /\ IdleAgent /\ IdleRs /\ IdleRf

\* the agent calls the hook on the candidate list
ApplyHook ==
    /\ wPc = "ready"
    /\ wOut' = prepareStep(wIn)
    /\ wPc' = "applied"
    /\ UNCHANGED <<wIn, wTwice, chatVars, agentVars, rsVars, rfVars>>

\* the hook applied to its own output
ApplyHookAgain ==
    /\ wPc = "applied"
    /\ wTwice' = prepareStep(wOut)
    /\ wPc' = "twice"
    /\ UNCHANGED <<wIn, wOut, chatVars, agentVars, rsVars, rfVars>>

NextWindow == ApplyHook \/ ApplyHookAgain
SpecWindow == InitWindow /\ [][NextWindow]_vars

\* C4: for every message list M the hook returns M unchanged when Len(M) <= 8,
\* and otherwise exactly M[0] followed by the last 8 messages of M in order
\* (length 9, the kept positions all after position 0); a list of length 9
\* comes back equal to the input, and the hook applied to its own output
\* returns that output.
C4_WindowExact ==
    wPc \in {"applied", "twice"} =>
        /\ Len(wIn) <= 8 => wOut = wIn
        /\ Len(wIn) > 8 =>
             /\ Len(wOut) = 9
             /\ wOut[1] = wIn[1]
             /\ \A k \in 2..9 : /\ Len(wIn) - 9 + k > 1
                                /\ wOut[k] = wIn[Len(wIn) - 9 + k]
        /\ Len(wIn) = 9 => wOut = wIn
        /\ wPc = "twice" => wTwice = wOut

\* a list of length 10 was truncated (its second message dropped) and the
\* hook was then applied to the result
C4_Witness ==
    /\ wPc = "twice"
    /\ Len(wIn) = 10
    /\ wIn[2] # wIn[3]
    /\ wOut # wIn
    /\ Len(wOut) = 9

(***************************************************************************)
(* SpecReadFile: one readFile tool call, from the offered input to the     *)
(* tool result.  fsOps records every filesystem operation performed.       *)
(***************************************************************************)
MaxFileParts == 3
MaxFileSize  == 1000000

FilePieces ==
    { <<"/">>, <<"\\">>, <<"a">>,
      <<".", "e", "n", "v">>, <<".", "g", "i", "t">>,
      <<"n","o","d","e","_","m","o","d","u","l","e","s">>,
      <<".", "p", "n", "g">>, <<".", "P", "d", "F">> }

PathsOf(pieces, n) == { Concat(q) : q \in SeqsUpTo(pieces, n) }

FileStates ==
    { NoFile } \cup
    { [exists |-> TRUE, executable |-> FALSE, size |-> z] :
          z \in {0, MaxFileSize, MaxFileSize + 1} }

FileContent == <<"c", "o", "n", "t", "e", "n", "t">>

InitReadFile ==
    /\ filePath \in PathsOf(FilePieces, MaxFileParts)
    /\ fsFile \in FileStates
    /\ rfPc = "offered" /\ rfResult = <<>> /\ fsOps = <<>>
    /\ IdleChat /\ IdleAgent /\ IdleWin /\ IdleRs

\* try { ... } catch (error) { return `Error reading file: ${...}` }
RfCatch(outcome) ==
    IF outcome.kind = "throw"
    THEN [kind |-> "return", value |-> <<"Error reading file: ">> \o outcome.value]
    ELSE outcome

\* inputSchema.parse: execute is called only with an input the schema accepts
RfValidate ==
    /\ rfPc = "offered"
    /\ IF FilePathOk(filePath)
       THEN rfPc' = "exists" /\ rfResult' = rfResult
       ELSE rfPc' = "rejected" /\ rfResult' = <<"Cannot read that file path">>
    /\ UNCHANGED <<filePath, fsOps, fsFile, chatVars, agentVars, winVars, rsVars>>

\* if (!await file.exists()) return 'File not found'
RfExists ==
    /\ rfPc = "exists"
    /\ fsOps' = Append(fsOps, "exists")
    /\ IF ~fsFile.exists
       THEN rfPc' = "returned" /\ rfResult' = <<"File not found">>
       ELSE rfPc' = "size" /\ rfResult' = rfResult
    /\ UNCHANGED <<filePath, fsFile, chatVars, agentVars, winVars, rsVars>>

\* if (file.size > 1000000) return 'File too large to read'
RfSize ==
    /\ rfPc = "size"
    /\ fsOps' = Append(fsOps, "size")
    /\ IF fsFile.size > MaxFileSize
       THEN rfPc' = "returned" /\ rfResult' = <<"File too large to read">>
       ELSE rfPc' = "read" /\ rfResult' = rfResult
    /\ UNCHANGED <<filePath, fsFile, chatVars, agentVars, winVars, rsVars>>

\* return await file.text(), which may reject
RfRead ==
    /\ rfPc = "read"
    /\ fsOps' = Append(fsOps, "text")
    /\ \E outcome \in { [kind |-> "return", value |-> FileContent],
                        [kind |-> "throw", value |-> <<"EIO">>] } :
           rfResult' = RfCatch(outcome).value
    /\ rfPc' = "returned"
    /\ UNCHANGED <<filePath, fsFile, chatVars, agentVars, winVars, rsVars>>

NextReadFile == RfValidate \/ RfExists \/ RfSize \/ RfRead
SpecReadFile == InitReadFile /\ [][NextReadFile]_vars

\* the path's segments after backslashes are replaced by '/'
Segments(path) ==
    LET segs == Split(ReplaceBackslashes(path))
    IN  { segs[i] : i \in 1..Len(segs) }

\* the denylist as the specification states it
ReferencesDenied(path) ==
    \/ <<".", "e", "n", "v">> \in Segments(path)
    \/ <<".", "g", "i", "t">> \in Segments(path)
    \/ <<"n","o","d","e","_","m","o","d","u","l","e","s">> \in Segments(path)
    \/ \E e \in ImageExtensions :
           EndsWith(ToLower(ReplaceBackslashes(path)), <<".">> \o e)

\* C2: a filePath that references .env, .git, node_modules or a listed binary
\* extension, relative or absolute, is rejected by validation and no
\* filesystem operation is performed for it.
C2_DeniedNeverTouchesFs ==
    ReferencesDenied(filePath) => (fsOps = <<>> /\ rfPc # "returned")

(***************************************************************************)
(* SpecRunScript: one runScript tool call.  The child process runs until   *)
(* it exits by itself or the spawn timeout kills it; clock is the time     *)
(* since the spawn in milliseconds.                                        *)
(***************************************************************************)
MaxScriptParts == 4
TickMs    == 2500
TimeoutMs == 10000

ScriptPieces == { SKILLS_PATH, <<"/">>, <<"\\">>, <<".", ".">>, <<"a">>, <<"-">> }

ScriptStates ==
    { [exists |-> e, executable |-> x, size |-> 0] : e \in BOOLEAN, x \in BOOLEAN }

ChildPlans == [stdout : {<<>>, <<"o", "u", "t">>}, stderr : {<<>>, <<"e", "r", "r">>}]
ExitCodes  == {0, 1, 127}

Digits == <<"0", "1", "2", "3", "4", "5", "6", "7", "8", "9">>
\* `${n}` for a non-negative integer
RECURSIVE ToDecimal(_)
ToDecimal(n) == IF n < 10 THEN <<Digits[n + 1]>>
                ELSE ToDecimal(n \div 10) \o <<Digits[(n % 10) + 1]>>

\* `${proc.exitCode}`: null when the child was ended by a signal
ExitCodeText(e) == IF e.killed THEN <<"n", "u", "l", "l">> ELSE ToDecimal(e.code)

\* proc.exitCode !== 0
ExitedNonZero(e) == e.killed \/ e.code # 0

\* what execute returns once the child has ended
ExitOutcomeStdout(e, plan) == [kind |-> "return", value |-> plan.stdout]
ExitOutcome(e, plan) ==
    IF ExitedNonZero(e)
    THEN [kind |-> "return",
          value |-> <<"Script failed with exit code ">> \o ExitCodeText(e)
                        \o <<": ">> \o plan.stderr]
    ELSE [kind |-> "return", value |-> plan.stdout]

\* try { ... } catch (error) { return `Error executing script: ${...}` }
RsCatch(outcome) ==
    IF outcome.kind = "throw"
    THEN [kind |-> "return", value |-> <<"Error executing script: ">> \o outcome.value]
    ELSE outcome

\* Bun.spawn's timeout: 10000
TimeoutExpired(c) == c >= TimeoutMs

InitRunScript ==
    /\ scriptPath \in PathsOf(ScriptPieces, MaxScriptParts)
    /\ fsScript \in ScriptStates
    /\ rsPc = "offered" /\ rsResult = <<>> /\ spawned = 0 /\ child = "none"
    /\ clock = 0 /\ exitCode = NoExit /\ childPlan = NoPlan
    /\ timer = "none" /\ pipeChild = FALSE /\ pipeHeir = FALSE
    /\ IdleChat /\ IdleAgent /\ IdleWin /\ IdleRf

\* execute ends: a returned value becomes the tool result, a thrown one a fault
RsEnd(outcome) ==
    /\ rsResult' = outcome.value
    /\ rsPc' = IF outcome.kind = "return" THEN "returned" ELSE "threw"

\* inputSchema.parse: execute is called only with an input the schema accepts
RsValidate ==
    /\ rsPc = "offered"
    /\ IF ScriptPathOk(scriptPath)
       THEN rsPc' = "exists" /\ rsResult' = rsResult
       ELSE /\ rsPc' = "rejected"
            /\ rsResult' = <<"Script path must be within the skills directory">>
    /\ UNCHANGED <<scriptPath, spawned, child, clock, exitCode, fsScript, childPlan,
                   timer, pipeChild, pipeHeir, chatVars, agentVars, winVars, rfVars>>

\* if (!await file.exists()) return 'Script not found'
RsExists ==
    /\ rsPc = "exists"
    /\ IF ~fsScript.exists
       THEN RsEnd(RsCatch([kind |-> "return", value |-> <<"Script not found">>]))
       ELSE rsPc' = "testx" /\ rsResult' = rsResult
    /\ UNCHANGED <<scriptPath, spawned, child, clock, exitCode, fsScript, childPlan,
                   timer, pipeChild, pipeHeir, chatVars, agentVars, winVars, rfVars>>

\* try { await Bun.$`test -x ${scriptPath}` } catch { return 'Script is not executable' }
RsTestX ==
    /\ rsPc = "testx"
    /\ IF ~fsScript.executable
       THEN RsEnd(RsCatch([kind |-> "return", value |-> <<"Script is not executable">>]))
       ELSE rsPc' = "spawn" /\ rsResult' = rsResult
    /\ UNCHANGED <<scriptPath, spawned, child, clock, exitCode, fsScript, childPlan,
                   timer, pipeChild, pipeHeir, chatVars, agentVars, winVars, rfVars>>

\* Bun.spawn([scriptPath, ...args], { timeout: 10000, stderr: 'pipe' }): the
\* child holds the pipes, and so may a process it starts
RsSpawn ==
    /\ rsPc = "spawn"
    /\ \E plan \in ChildPlans : childPlan' = plan
    /\ \E heir \in BOOLEAN : pipeHeir' = heir
    /\ pipeChild' = TRUE
    /\ timer' = "armed"
    /\ spawned' = spawned + 1
    /\ child' = "running"
    /\ clock' = 0
    /\ rsPc' = "await"
    /\ UNCHANGED <<scriptPath, rsResult, exitCode, fsScript,
                   chatVars, agentVars, winVars, rfVars>>

\* Bun.spawn throws (the target cannot be executed)
RsSpawnThrows ==
    /\ rsPc = "spawn"
    /\ RsEnd(RsCatch([kind |-> "throw", value |-> <<"ENOEXEC">>]))
    /\ UNCHANGED <<scriptPath, spawned, child, clock, exitCode, fsScript, childPlan,
                   timer, pipeChild, pipeHeir, chatVars, agentVars, winVars, rfVars>>

\* time passes while the timeout is pending
Tick ==
    /\ child = "running"
    /\ timer = "armed"
    /\ clock < TimeoutMs
    /\ clock' = clock + TickMs
    /\ UNCHANGED <<scriptPath, rsPc, rsResult, spawned, child, exitCode, fsScript,
                   childPlan, timer, pipeChild, pipeHeir,
                   chatVars, agentVars, winVars, rfVars>>

\* the child closes its stdout and stderr while it keeps running
ChildClosesPipes ==
    /\ child = "running"
    /\ pipeChild
    /\ pipeChild' = FALSE
    /\ UNCHANGED <<scriptPath, rsPc, rsResult, spawned, child, clock, exitCode,
                   fsScript, childPlan, timer, pipeHeir,
                   chatVars, agentVars, winVars, rfVars>>

\* the process the child started closes the pipes it inherited
HeirClosesPipes ==
    /\ pipeHeir
    /\ pipeHeir' = FALSE
    /\ UNCHANGED <<scriptPath, rsPc, rsResult, spawned, child, clock, exitCode,
                   fsScript, childPlan, timer, pipeChild,
                   chatVars, agentVars, winVars, rfVars>>

\* the child exits by itself
ChildExit ==
    /\ child = "running"
    /\ \E c \in ExitCodes : exitCode' = [killed |-> FALSE, code |-> c]
    /\ child' = "exited"
    /\ pipeChild' = FALSE
    /\ UNCHANGED <<scriptPath, rsPc, rsResult, spawned, clock, fsScript, childPlan,
                   timer, pipeHeir, chatVars, agentVars, winVars, rfVars>>

\* the timeout fires while the child runs: the kill signal (SIGTERM unless
\* killSignal is given) ends the child
TimeoutKill ==
    /\ child = "running"
    /\ timer = "armed"
    /\ TimeoutExpired(clock)
    /\ timer' = "fired"
    /\ child' = "killed"
    /\ exitCode' = [killed |-> TRUE, code |-> 0]
    /\ pipeChild' = FALSE
    /\ UNCHANGED <<scriptPath, rsPc, rsResult, spawned, clock, fsScript, childPlan,
                   pipeHeir, chatVars, agentVars, winVars, rfVars>>

\* the timeout fires and the child ignores the signal
TimeoutIgnored ==
    /\ child = "running"
    /\ timer = "armed"
    /\ TimeoutExpired(clock)
    /\ timer' = "fired"
    /\ UNCHANGED <<scriptPath, rsPc, rsResult, spawned, child, clock, exitCode,
                   fsScript, childPlan, pipeChild, pipeHeir,
                   chatVars, agentVars, winVars, rfVars>>

\* await Promise.all([proc.stdout.text(), proc.stderr.text()]): both pipes
\* have reached end-of-file, which needs every holder to have closed them
RsReadPipes ==
    /\ rsPc = "await"
    /\ ~pipeChild /\ ~pipeHeir
    /\ rsPc' = "join"
    /\ UNCHANGED <<scriptPath, rsResult, spawned, child, clock, exitCode, fsScript,
                   childPlan, timer, pipeChild, pipeHeir,
                   chatVars, agentVars, winVars, rfVars>>

\* await proc.exited; if (proc.exitCode !== 0) return `Script failed ...`; return stdout
RsExited ==
    /\ rsPc = "join"
    /\ child \in {"exited", "killed"}
    /\ RsEnd(RsCatch(ExitOutcome(exitCode, childPlan)))
    /\ UNCHANGED <<scriptPath, spawned, child, clock, exitCode, fsScript, childPlan,
                   timer, pipeChild, pipeHeir, chatVars, agentVars, winVars, rfVars>>

NextRunScript ==
    \/ RsValidate \/ RsExists \/ RsTestX \/ RsSpawn \/ RsSpawnThrows
    \/ Tick \/ ChildClosesPipes \/ HeirClosesPipes \/ ChildExit
    \/ TimeoutKill \/ TimeoutIgnored \/ RsReadPipes \/ RsExited

\* the event loop runs every continuation that is ready, time passes and the
\* timeout fires; nothing obliges the child to exit by itself, nor it or a
\* process it started to close the pipes
FairRunScript ==
    /\ WF_vars(RsValidate) /\ WF_vars(RsExists) /\ WF_vars(RsTestX)
    /\ WF_vars(RsSpawn \/ RsSpawnThrows) /\ WF_vars(Tick)
    /\ WF_vars(TimeoutKill \/ TimeoutIgnored)
    /\ WF_vars(RsReadPipes) /\ WF_vars(RsExited)

SpecRunScript == InitRunScript /\ [][NextRunScript]_vars /\ FairRunScript

\* the form <SKILLS_PATH>/<skill>/<subpath...> of the normalized path: its
\* segments begin with those of the skills root, at least two more follow,
\* and none is '..'
Confined(path) ==
    LET segs == Split(ReplaceBackslashes(path))
        root == Split(SKILLS_PATH)
    IN  /\ Len(segs) >= Len(root) + 2
        /\ SubSeq(segs, 1, Len(root)) = root
        /\ \A i \in 1..Len(segs) : segs[i] # <<".", ".">>

\* C1: a scriptPath that is not of the form <SKILLS_PATH>/<skill>/<subpath...>
\* or that has a '..' segment is rejected by validation, and no child process
\* is spawned for the call.
C1_UnconfinedNeverSpawns ==
    ~Confined(scriptPath) => (spawned = 0 /\ child = "none")

FailureText(e, plan) ==
    /\ rsResult # <<>>
    /\ Head(rsResult) = "Script failed with exit code "
    /\ Includes(rsResult, ExitCodeText(e))
    /\ Includes(rsResult, plan.stderr)

\* C6: every call that passes validation ends with a tool result; a child
\* still running when the 10 seconds have passed is terminated and the call
\* returns a failure string; no child is running once the call has returned.
C6_TimeoutResolves ==
    /\ (rsPc = "exists") ~> (rsPc = "returned")
    /\ (child = "running" /\ clock >= 10000) ~> (child # "running")
    /\ [](rsPc = "returned" => child # "running")
    /\ [](rsPc = "returned" /\ child = "killed" => FailureText(exitCode, childPlan))

\* C8: execute never ends with a throw and what it returns is a string: "Script not found" and no
\* spawn for a missing target, "Script is not executable" and no spawn for a
\* target that is not executable, a spawn only after both checks, a failure
\* string with the exit code and stderr for a non-zero exit status, and the
\* child's standard output verbatim for exit status 0.
C8_OutcomesAreResults ==
    /\ rsPc # "threw"
    /\ spawned > 0 => (fsScript.exists /\ fsScript.executable)
    /\ rsPc = "returned" =>
         /\ ~fsScript.exists => (rsResult = <<"Script not found">> /\ spawned = 0)
         /\ (fsScript.exists /\ ~fsScript.executable) =>
                (rsResult = <<"Script is not executable">> /\ spawned = 0)
         /\ (child = "exited" /\ exitCode.code # 0) =>
                FailureText(exitCode, childPlan)
         /\ (child = "exited" /\ exitCode.code = 0) => rsResult = childPlan.stdout

\* a spawned child exited with status 127 and wrote to stderr
C8_Witness ==
    /\ rsPc = "returned"
    /\ child = "exited"
    /\ exitCode.code = 127
    /\ childPlan.stderr # <<>>
    /\ childPlan.stdout # <<>>
    /\ rsResult # childPlan.stdout

(***************************************************************************)
(* Spec: the chat loop, streamAgentResponse and the agent's step loop.     *)
(* The model backend decides what each step produces; the two consumers    *)
(* (the for-await over textStream, the toolMonitor task over fullStream)   *)
(* read independently of each other.                                       *)
(***************************************************************************)
StepBudget == 10
MaxLines   == 3
MaxFrags   == 2
ChanCap    == 2

Lines     == { <<>>, <<" ", "\t", "\f", "U+00A0">>, <<"\f", "h", "i", "U+000B">> }
\* the text parts of a turn are pairwise different, so that their order shows
TextPart(k) == <<LowerCase[(k % 26) + 1]>>

Chunk(type, id) == [type |-> type, id |-> id]

\* a stream takes another item while it buffers fewer than ChanCap of them
HasRoom(stream) == Len(stream) < ChanCap

\* if (!line.trim())
IsEmptyLine(s) == s = <<>>
IsBlank(s) == Trim(s) = <<>>

\* assistantResponse += textPart
AccumulateOverwrite(response, textPart) == textPart
Accumulate(response, textPart) == response \o textPart

\* conversationHistory.push({ role: 'assistant', content: assistantResponse })
PushAssistantIfText(history, response) ==
    IF response = <<>> THEN history ELSE Append(history, AssistantMessage(response))
PushAssistant(history, response) == Append(history, AssistantMessage(response))

\* the for-await over textStream has ended and `await toolMonitor` has resolved
TextLoopEndedOnly(t, m) == t = "done"
TurnMayFinish(t, m) == t = "done" /\ m = "done"

\* stopWhen: stepCountIs(10)
StepCountIs(n) == n >= StepBudget

Init ==
    /\ IdleChat /\ IdleAgent /\ IdleWin /\ IdleRs /\ IdleRf

\* for await (const line of console): a blank line writes the prompt again
BlankLine ==
    /\ pc = "awaiting"
    /\ lines < MaxLines
    /\ \E l \in Lines :
           /\ IsBlank(l)
           /\ line' = l
    /\ lines' = lines + 1
    /\ prompts' = prompts + 1
    /\ UNCHANGED <<pc, conversationHistory, assistantResponse, turns, textLoop,
                   toolMonitor, textStream, fullStream,
                   agentPc, step, initialMessages, responseMessages, candidate, sent,
                   arrived, frags, budgetHit, winVars, rsVars, rfVars>>

\* a non-blank line: streamAgentResponse(line) up to its first await
StartTurn ==
    /\ pc = "awaiting"
    /\ lines < MaxLines
    /\ \E l \in Lines :
           /\ ~IsBlank(l)
           /\ line' = l
           /\ conversationHistory' = Append(conversationHistory, UserMessage(l))
    /\ lines' = lines + 1
    /\ initialMessages' = conversationHistory'
    /\ responseMessages' = <<>> /\ candidate' = <<>> /\ sent' = <<>>
    /\ agentPc' = "between" /\ step' = 0 /\ arrived' = <<>> /\ frags' = 0
    /\ budgetHit' = FALSE
    /\ assistantResponse' = <<>>
    /\ textStream' = <<>> /\ fullStream' = <<>>
    /\ textLoop' = "reading" /\ toolMonitor' = "reading"
    /\ pc' = "turn"
    /\ UNCHANGED <<prompts, turns, winVars, rsVars, rfVars>>

\* the agent starts an inference step: prepareStep, then the model request
BeginStep ==
    /\ agentPc = "between"
    /\ ~StepCountIs(step)
    /\ candidate' = initialMessages \o responseMessages
    /\ sent' = prepareStep(candidate')
    /\ step' = step + 1
    /\ agentPc' = "infer"
    /\ UNCHANGED <<chatVars, initialMessages, responseMessages, arrived, frags,
                   budgetHit, line, lines, winVars, rsVars, rfVars>>

\* the model streams a text part: it goes to both streams
EmitText ==
    /\ agentPc = "infer"
    /\ frags < MaxFrags
    /\ HasRoom(textStream) /\ HasRoom(fullStream)
    /\ textStream' = Append(textStream, TextPart(frags))
    /\ arrived' = arrived \o TextPart(frags)
    /\ fullStream' = Append(fullStream, Chunk("text-delta", step))
    /\ frags' = frags + 1
    /\ UNCHANGED <<pc, conversationHistory, assistantResponse, prompts, turns,
                   textLoop, toolMonitor, agentPc, step, initialMessages,
                   responseMessages, candidate, sent, budgetHit, line, lines,
                   winVars, rsVars, rfVars>>

\* the model requests a tool call
ToolCall ==
    /\ agentPc = "infer"
    /\ HasRoom(fullStream)
    /\ fullStream' = Append(fullStream, Chunk("tool-call", step))
    /\ agentPc' = "tool"
    /\ UNCHANGED <<pc, conversationHistory, assistantResponse, prompts, turns,
                   textLoop, toolMonitor, textStream, step, initialMessages,
                   responseMessages, candidate, sent, arrived, frags, budgetHit, line, lines, winVars, rsVars, rfVars>>

\* the tool has run: its result ends the step
ToolResult ==
    /\ agentPc = "tool"
    /\ HasRoom(fullStream)
    /\ fullStream' = Append(fullStream, Chunk("tool-result", step))
    /\ responseMessages' = responseMessages \o
           <<ToolCallMessage(step), ToolResultMessage(step)>>
    /\ agentPc' = "between"
    /\ UNCHANGED <<pc, conversationHistory, assistantResponse, prompts, turns,
                   textLoop, toolMonitor, textStream, step, initialMessages,
                   candidate, sent, arrived, frags, budgetHit, line, lines,
                   winVars, rsVars, rfVars>>

\* the model ends the step without a tool call: the streams end
ModelStops ==
    /\ agentPc = "infer"
    /\ agentPc' = "closed"
    /\ UNCHANGED <<chatVars, step, initialMessages, responseMessages, candidate, sent,
                   arrived, frags, budgetHit, line, lines, winVars, rsVars, rfVars>>

\* stepCountIs(10) holds after a step that called tools: the streams end
BudgetStop ==
    /\ agentPc = "between"
    /\ StepCountIs(step)
    /\ budgetHit' = TRUE
    /\ agentPc' = "closed"
    /\ UNCHANGED <<chatVars, step, initialMessages, responseMessages, candidate, sent,
                   arrived, frags, line, lines, winVars, rsVars, rfVars>>

\* for await (const textPart of textStream) { ...; assistantResponse += textPart }
TextRead ==
    /\ textLoop = "reading"
    /\ textStream # <<>>
    /\ assistantResponse' = Accumulate(assistantResponse, Head(textStream))
    /\ textStream' = Tail(textStream)
    /\ UNCHANGED <<pc, conversationHistory, prompts, turns, textLoop, toolMonitor,
                   fullStream, agentVars, winVars, rsVars, rfVars>>

\* textStream has ended: the loop is left
TextEnd ==
    /\ textLoop = "reading"
    /\ textStream = <<>>
    /\ agentPc = "closed"
    /\ textLoop' = "done"
    /\ UNCHANGED <<pc, conversationHistory, assistantResponse, prompts, turns,
                   toolMonitor, textStream, fullStream, agentVars, winVars, rsVars,
                   rfVars>>

\* for await (const chunk of fullStream) { switch (chunk.type) ... }
MonitorRead ==
    /\ toolMonitor = "reading"
    /\ fullStream # <<>>
    /\ fullStream' = Tail(fullStream)
    /\ UNCHANGED <<pc, conversationHistory, assistantResponse, prompts, turns,
                   textLoop, toolMonitor, textStream, agentVars, winVars, rsVars,
                   rfVars>>

\* fullStream has ended: the toolMonitor promise resolves
MonitorEnd ==
    /\ toolMonitor = "reading"
    /\ fullStream = <<>>
    /\ agentPc = "closed"
    /\ toolMonitor' = "done"
    /\ UNCHANGED <<pc, conversationHistory, assistantResponse, prompts, turns,
                   textLoop, textStream, fullStream, agentVars, winVars, rsVars,
                   rfVars>>

\* await toolMonitor; push the assistant message; back in the loop, prompt
FinishTurn ==
    /\ pc = "turn"
    /\ TurnMayFinish(textLoop, toolMonitor)
    /\ conversationHistory' = PushAssistant(conversationHistory, assistantResponse)
    /\ turns' = turns + 1
    /\ prompts' = prompts + 1
    /\ pc' = "awaiting"
    /\ textLoop' = "idle" /\ toolMonitor' = "idle"
    /\ UNCHANGED <<assistantResponse, textStream, fullStream, agentVars, winVars,
                   rsVars, rfVars>>

Next ==
    \/ BlankLine \/ StartTurn
    \/ BeginStep \/ EmitText \/ ToolCall \/ ToolResult \/ ModelStops \/ BudgetStop
    \/ TextRead \/ TextEnd \/ MonitorRead \/ MonitorEnd \/ FinishTurn

\* the event loop runs the consumers whenever they are ready, and the agent
\* ends the streams at the step budget; nothing obliges the operator to type
\* or the model backend to answer
Fairness ==
    /\ WF_vars(TextRead) /\ WF_vars(TextEnd)
    /\ WF_vars(MonitorRead) /\ WF_vars(MonitorEnd)
    /\ WF_vars(FinishTurn) /\ WF_vars(BudgetStop)

Spec == Init /\ [][Next]_vars /\ Fairness

Last(h) == h[Len(h)]

Alternates(h) ==
    \A i \in 1..Len(h) : h[i].role = IF i % 2 = 1 THEN "user" ELSE "assistant"

\* C3: conversationHistory alternates roles starting with 'user'; while the
\* loop awaits input after N completed turns its length is 2N, and while a
\* turn is active it is 2N+1 with the turn's user message last.
C3_HistoryAlternates ==
    /\ Alternates(conversationHistory)
    /\ pc = "awaiting" => Len(conversationHistory) = 2 * turns
    /\ pc = "turn" =>
         /\ Len(conversationHistory) = 2 * turns + 1
         /\ Last(conversationHistory) = UserMessage(line)

\* a blank line and a turn whose reply is empty, then a turn in progress
C3_Witness ==
    /\ pc = "turn"
    /\ turns = 1
    /\ lines = 3
    /\ Len(conversationHistory) = 3
    /\ conversationHistory[2].content = <<>>

\* C5 as stated: a turn stopped by the 10-step budget ends with one assistant
\* message of non-empty content appended and the loop awaiting input.
C5_BudgetTurnNonEmpty ==
    (pc = "awaiting" /\ budgetHit) =>
        /\ Len(conversationHistory) = 2 * turns
        /\ Last(conversationHistory).role = "assistant"
        /\ Last(conversationHistory).content # <<>>

\* C5, amended: a turn stopped by the 10-step budget still completes: exactly
\* one assistant message is appended, its content is the text that arrived
\* during the turn (empty when no step produced text), and the loop returns
\* to awaiting input.
C5_BudgetTurnCompletes ==
    /\ (budgetHit /\ pc = "turn") ~> (budgetHit /\ pc = "awaiting")
    /\ [][(budgetHit /\ pc = "turn" /\ pc' = "awaiting") =>
            /\ step = 10
            /\ conversationHistory' =
                   Append(conversationHistory, AssistantMessage(arrived))]_vars

\* a turn ran its ten steps, all of them tool calls, and completed with the
\* partial text it had
C5_Witness ==
    /\ pc = "awaiting"
    /\ budgetHit
    /\ step = 10
    /\ Len(responseMessages) = 20
    /\ Len(conversationHistory) = 2
    /\ Last(conversationHistory).content = <<"a">>

OnlyWhitespace(l) == \A i \in 1..Len(l) : l[i] \in WhiteSpace

\* C7: reading a line that is empty or only whitespace starts no turn, makes
\* no model request, leaves conversationHistory unchanged and writes the
\* operator prompt again.
C7_BlankLineIsNoTurn ==
    [][(lines' = lines + 1 /\ OnlyWhitespace(line')) =>
          /\ conversationHistory' = conversationHistory
          /\ pc = "awaiting" /\ pc' = "awaiting"
          /\ turns' = turns
          /\ agentPc' = agentPc /\ step' = step /\ sent' = sent
          /\ textLoop' = textLoop /\ toolMonitor' = toolMonitor
          /\ prompts' = prompts + 1]_vars

\* a whitespace-only line was read after a completed turn
C7_Witness ==
    /\ line = <<" ", "\t", "\f", "U+00A0">>
    /\ lines = 2
    /\ turns = 1
    /\ pc = "awaiting"
    /\ Len(conversationHistory) = 2
    /\ prompts = 2

\* C9: the assistant message is appended, and the next line accepted, only
\* after both streams have ended and been read to the end; one turn at a
\* time; the appended content is the turn's text parts in arrival order.
C9_BothStreamsDrained ==
    [][/\ (turns' = turns + 1) =>
             /\ textStream = <<>> /\ fullStream = <<>>
             /\ agentPc = "closed"
             /\ textLoop = "done" /\ toolMonitor = "done"
             /\ conversationHistory' =
                    Append(conversationHistory, AssistantMessage(arrived))
       /\ (lines' = lines + 1) =>
             /\ pc = "awaiting"
             /\ textStream = <<>> /\ fullStream = <<>>
             /\ agentPc \in {"off", "closed"}
             /\ Len(conversationHistory) = 2 * turns]_vars

\* a turn with a tool call and two different text parts has completed
C9_Witness ==
    /\ pc = "awaiting"
    /\ turns = 1
    /\ step = 2
    /\ arrived = <<"a", "b">>
    /\ Last(conversationHistory).content = <<"a", "b">>
    /\ responseMessages[1].call = 1

Coherent(ms) ==
    \A i \in 1..Len(ms) :
        ms[i].role = "tool" =>
            \E j \in 1..(i - 1) : ms[j].role = "assistant" /\ ms[j].call = ms[i].call

\* C10: the list prepareStep sends to the model never holds a tool-result
\* message whose tool-call message the truncation removed.
C10_SentIsCoherent == Coherent(sent)

\* the truncation removed a tool call together with its result, and the
\* list sent keeps later tool results
C10_Witness ==
    /\ Len(candidate) > 9
    /\ Len(sent) = 9
    /\ \E i \in 1..Len(candidate) :
           /\ candidate[i].role = "tool"
           /\ \A k \in 1..Len(sent) : sent[k].call # candidate[i].call
    /\ \E k \in 1..Len(sent) : sent[k].role = "tool"

====
